---- MODULE Spec2Model ----
(***************************************************************************)
(* A model of id-watermark (github.com/denysvitali/id-watermark):          *)
(*   - pkg/watermark: ValidateConfig, NewProcessor, ProcessFile,           *)
(*     NewBatchProcessor, ProcessDirectory, processFiles, worker,          *)
(*     findImageFiles;                                                     *)
(*   - cmd: runProcess and runBatch;                                       *)
(*   - internal/config: CreateWatermarkConfig.                             *)
(*                                                                         *)
(* Strings whose characters the code inspects (file names, the company     *)
(* name) are sequences of one-character strings.  float64 values are       *)
(* records [nan, v]: an integer v, or NaN, compared as Go compares them.   *)
(* A path is identified with the position of its entry in the pre-order    *)
(* (lexical) listing of the input directory that filepath.Walk visits.     *)
(***************************************************************************)
EXTENDS Integers, Sequences, FiniteSets, TLC

(***************************************************************************)
(* Bounds of the model.                                                    *)
(***************************************************************************)
\* entries of the input directory's listing in the batch specification
MaxEntries == 2
\* entries of the listing in the file-discovery specification
FindMaxEntries == 3
\* nesting depth of the input directory's listing
MaxDepth == 2
\* the largest worker count a BatchProcessor is constructed with in Spec
MaxWorkers == 2
\* entries of the listing in the command specification
CmdMaxEntries == 1

(***************************************************************************)
(* Strings: strings.ToLower, strings.TrimSpace, filepath.Ext.              *)
(***************************************************************************)
UpperChars ==
    << "A", "B", "C", "D", "E", "F", "G", "H", "I", "J", "K", "L", "M",
       "N", "O", "P", "Q", "R", "S", "T", "U", "V", "W", "X", "Y", "Z" >>

LowerChars ==
    << "a", "b", "c", "d", "e", "f", "g", "h", "i", "j", "k", "l", "m",
       "n", "o", "p", "q", "r", "s", "t", "u", "v", "w", "x", "y", "z" >>

ToLowerChar(c) ==
    IF \E i \in 1..26 : UpperChars[i] = c
    THEN LowerChars[CHOOSE i \in 1..26 : UpperChars[i] = c]
    ELSE c

\* strings.ToLower on an ASCII string
ToLower(s) == [i \in 1..Len(s) |-> ToLowerChar(s[i])]

\* unicode.IsSpace, the white space strings.TrimSpace removes: the ASCII
\* characters \t, \n, \v, \f, \r and space, and the other characters of
\* Unicode's White_Space property.  A character that cannot be written in a
\* string here is named by its code point.
IsSpace(c) ==
    c \in {" ", "\t", "\n", "U+000B", "\f", "\r", "U+0085", "U+00A0",
           "U+1680", "U+2000", "U+2001", "U+2002", "U+2003", "U+2004",
           "U+2005", "U+2006", "U+2007", "U+2008", "U+2009", "U+200A",
           "U+2028", "U+2029", "U+202F", "U+205F", "U+3000"}

\* strings.TrimSpace: the string without leading and trailing white space
TrimSpace(s) ==
    IF \A i \in 1..Len(s) : IsSpace(s[i])
    THEN << >>
    ELSE LET first == CHOOSE i \in 1..Len(s) :
                         /\ ~IsSpace(s[i])
                         /\ \A j \in 1..(i - 1) : IsSpace(s[j])
             last  == CHOOSE i \in 1..Len(s) :
                         /\ ~IsSpace(s[i])
                         /\ \A j \in (i + 1)..Len(s) : IsSpace(s[j])
         IN  SubSeq(s, first, last)

\* filepath.Ext: the suffix of the path's last element starting at its last
\* dot; empty when the last element holds no dot.  The scan runs from the
\* end of the path and stops at a path separator.
Ext(path) ==
    LET dots == {i \in 1..Len(path) :
                    /\ path[i] = "."
                    /\ \A j \in i..Len(path) : path[j] # "/"}
    IN  IF dots = {} THEN << >>
        ELSE LET d == CHOOSE i \in dots : \A j \in dots : j <= i
             IN  SubSeq(path, d, Len(path))

(***************************************************************************)
(* The input directory.  Its listing is the sequence of the entries below  *)
(* inputDir in the order filepath.Walk visits them (pre-order, each        *)
(* directory's names sorted); depth 1 is an entry directly in inputDir.    *)
(* kind "other" is an entry Lstat reports neither as a directory nor as a  *)
(* regular file: a symbolic link, a FIFO, a device.  readable is FALSE for *)
(* a directory whose names cannot be read (ReadDir fails).                 *)
(***************************************************************************)
JpgName      == << "a", ".", "j", "p", "g" >>
UpperJpgName == << "a", ".", "J", "P", "G" >>
JpegName     == << "a", ".", "j", "p", "e", "g" >>
MixedPngName == << "a", ".", "P", "n", "G" >>
TxtName      == << "a", ".", "p", "n", "g", ".", "t", "x", "t" >>
NoExtName    == << "j", "p", "g" >>
SubDirName   == << "s", "u", "b" >>
DotDirName   == << "v", ".", "p", "n", "g" >>

FileNames == {JpgName, UpperJpgName, JpegName, MixedPngName, TxtName, NoExtName}
DirNames  == {SubDirName, DotDirName}

\* the entries a listing is made of, at a given depth
EntriesAt(d, fileNames, dirNames, kinds) ==
    {[depth |-> d, kind |-> k, name |-> n, readable |-> TRUE] :
        k \in kinds \ {"dir"}, n \in fileNames}
    \cup
    (IF "dir" \in kinds
     THEN {[depth |-> d, kind |-> "dir", name |-> n, readable |-> r] :
              n \in dirNames, r \in BOOLEAN}
     ELSE {})

\* the depths the entry after listing es may have: below the last entry when
\* that is a readable directory, else beside it or beside one of its ancestors
NextDepths(es) ==
    IF es = << >> THEN {1}
    ELSE LET l == es[Len(es)]
         IN  1..(IF l.kind = "dir" /\ l.readable /\ l.depth < MaxDepth
                 THEN l.depth + 1 ELSE l.depth)

RECURSIVE Listings(_, _, _, _)
\* every listing of at most n entries
Listings(n, fileNames, dirNames, kinds) ==
    IF n = 0 THEN {<< >>}
    ELSE LET prev == Listings(n - 1, fileNames, dirNames, kinds)
         IN  prev \cup
             UNION {{Append(es, e) :
                        e \in UNION {EntriesAt(d, fileNames, dirNames, kinds) :
                                        d \in NextDepths(es)}} :
                    es \in {p \in prev : Len(p) = n - 1}}

\* the index of the directory holding entry i (0: inputDir itself)
Parent(es, i) ==
    IF es[i].depth = 1 THEN 0
    ELSE CHOOSE j \in 1..(i - 1) :
            /\ es[j].depth = es[i].depth - 1
            /\ \A k \in (j + 1)..(i - 1) : es[k].depth >= es[i].depth

RECURSIVE RelPath(_, _)
\* filepath.Join of the names from inputDir down to entry i
RelPath(es, i) ==
    IF Parent(es, i) = 0 THEN es[i].name
    ELSE RelPath(es, Parent(es, i)) \o << "/" >> \o es[i].name

RECURSIVE Ancestors(_, _)
\* the directories between inputDir and entry i
Ancestors(es, i) ==
    IF Parent(es, i) = 0 THEN {}
    ELSE {Parent(es, i)} \cup Ancestors(es, Parent(es, i))

(***************************************************************************)
(* findImageFiles (filepath.Walk with the callback of lines 422-444).      *)
(***************************************************************************)
supportedExts == {<< ".", "j", "p", "g" >>, << ".", "j", "p", "e", "g" >>,
                  << ".", "p", "n", "g" >>}

\* (mutant) the extension compared without lower-casing it
IsSupportedExtExact(path) == Ext(path) \in supportedExts

\* the callback's extension test, lines 435-441
IsSupportedExt(path) == ToLower(Ext(path)) \in supportedExts

\* The callback on one visited entry: what it returns ("nil", "SkipDir" or
\* the error it was handed) and the list it leaves in imageFiles.
\* isRoot is path = inputDir; dirErr is the error of reading a directory's
\* names, which Walk hands to the callback ("nil": none).
WalkFn(imageFiles, path, id, isDir, isRoot, dirErr, recursive) ==
    IF dirErr # "nil" THEN [ret |-> dirErr, files |-> imageFiles]
    ELSE IF isDir
    THEN IF ~recursive /\ ~isRoot
         THEN [ret |-> "SkipDir", files |-> imageFiles]
         ELSE [ret |-> "nil", files |-> imageFiles]
    ELSE IF IsSupportedExt(path)
    THEN [ret |-> "nil", files |-> Append(imageFiles, id)]
    ELSE [ret |-> "nil", files |-> imageFiles]

RECURSIVE WalkFrom(_, _, _, _, _)
\* filepath.Walk over the listing from entry i on; skip > 0 while the
\* entries below depth skip are passed over (their directory returned
\* SkipDir).  A non-nil return of the callback other than SkipDir ends the
\* walk with that error.  (The entry's path and the callback's result r are
\* bound through one-element sets so that each is computed once per entry.)
WalkFrom(es, i, skip, imageFiles, recursive) ==
    IF i > Len(es) THEN [files |-> imageFiles, err |-> "nil"]
    ELSE IF skip > 0 /\ es[i].depth > skip
    THEN WalkFrom(es, i + 1, skip, imageFiles, recursive)
    ELSE CHOOSE out \in
            {IF r.ret = "SkipDir"
             THEN WalkFrom(es, i + 1, es[i].depth, r.files, recursive)
             ELSE IF r.ret # "nil"
             THEN [files |-> r.files, err |-> r.ret]
             ELSE WalkFrom(es, i + 1, 0, r.files, recursive) :
                r \in {WalkFn(imageFiles, path, i,
                              es[i].kind = "dir", FALSE,
                              IF es[i].kind = "dir" /\ ~es[i].readable
                              THEN "readdir" ELSE "nil",
                              recursive) : path \in {RelPath(es, i)}}} : TRUE

\* findImageFiles(inputDir): the paths found (positions in the listing) and
\* Walk's error.  root is "dir", "unreadable" (its names cannot be read) or
\* "missing" (Lstat fails).
findImageFiles(dir, recursive) ==
    IF dir.root = "missing"
    THEN [files |-> << >>, err |-> "lstat"]
    ELSE LET r == WalkFn(<< >>, << >>, 0, TRUE, TRUE,
                         IF dir.root = "unreadable" THEN "readdir" ELSE "nil",
                         recursive)
         IN  IF r.ret # "nil"
             THEN [files |-> r.files, err |-> r.ret]
             ELSE WalkFrom(dir.entries, 1, 0, r.files, recursive)

(***************************************************************************)
(* watermark.Config and ValidateConfig.                                    *)
(***************************************************************************)
\* a float64: the number v, or NaN
F(v) == [nan |-> FALSE, v |-> v]

NaN == [nan |-> TRUE, v |-> 0]

\* Go's a < b and a > b on float64: false when either side is NaN
FLt(a, b) == ~a.nan /\ ~b.nan /\ a.v < b.v

FGt(a, b) == ~a.nan /\ ~b.nan /\ a.v > b.v

NilConfig == [isNil |-> TRUE]

\* ValidateConfig: "nil", or the first failing check's error
ValidateConfig(config) ==
    IF config = NilConfig THEN "config cannot be nil"
    ELSE IF TrimSpace(config.CompanyName) = << >>
    THEN "company name cannot be empty"
    ELSE IF FLt(config.FontSize, F(10)) \/ FGt(config.FontSize, F(200))
    THEN "font size must be between 10 and 200"
    ELSE IF FLt(config.TextSpacing, F(5)) \/ FGt(config.TextSpacing, F(200))
    THEN "text spacing must be between 5 and 200"
    ELSE IF FLt(config.LineSpacing, F(5)) \/ FGt(config.LineSpacing, F(200))
    THEN "line spacing must be between 5 and 200"
    ELSE IF config.Quality < 1 \/ config.Quality > 100
    THEN "quality must be between 1 and 100"
    ELSE IF config.Font = "nil"
    THEN "font cannot be nil"
    ELSE "nil"

\* the configuration the application's defaults give
\* (internal/config setDefaults: 40, 30, 30, 95)
DefaultConfig ==
    [isNil |-> FALSE, CompanyName |-> << "A", "C", "M", "E" >>,
     FontSize |-> F(40), TextSpacing |-> F(30), LineSpacing |-> F(30),
     Quality |-> 95, Font |-> "font", TimestampZero |-> FALSE]

(***************************************************************************)
(* Processor.ProcessFile: open, decode, render, save.  failAt is the first *)
(* step the environment lets fail ("none": every step succeeds); "create"  *)
(* and "encode" are the two failures of saveImage.  The result is the      *)
(* error returned and whether the output file was created or truncated.    *)
(***************************************************************************)
FailPoints == {"none", "open", "decode", "render", "create", "encode"}

ProcessFile(failAt) ==
    IF failAt = "open"
    THEN [err |-> "opening input file", created |-> FALSE]
    ELSE IF failAt = "decode"
    THEN [err |-> "decoding image", created |-> FALSE]
    ELSE IF failAt = "render"
    THEN [err |-> "applying watermark", created |-> FALSE]
    ELSE IF failAt = "create"
    THEN [err |-> "saving image", created |-> FALSE]
    ELSE IF failAt = "encode"
    THEN [err |-> "saving image", created |-> TRUE]
    ELSE [err |-> "nil", created |-> TRUE]

(***************************************************************************)
(* Processor.applyWatermark.  Lengths (vg.Length) are counted in quarters  *)
(* of a point, so that the length of a whole number of pixels              *)
(* (px * vg.Inch / vgimg.DefaultDPI = px * 72 / 96 points) is whole.       *)
(***************************************************************************)
\* image.Rect: the rectangle, its corners put in order
Rect(x0, y0, x1, y1) ==
    [Min |-> [X |-> IF x0 <= x1 THEN x0 ELSE x1, Y |-> IF y0 <= y1 THEN y0 ELSE y1],
     Max |-> [X |-> IF x0 <= x1 THEN x1 ELSE x0, Y |-> IF y0 <= y1 THEN y1 ELSE y0]]

\* Rectangle.Size
Size(b) == [X |-> b.Max.X - b.Min.X, Y |-> b.Max.Y - b.Min.Y]

\* lines 123-124: vg.Length(px) * vg.Inch / vgimg.DefaultDPI
PxToLength(px) == 3 * px

\* a config value in points as a length
PtToLength(pt) == 4 * pt

\* math.Sqrt, rounded down to a whole length
Sqrt(n) == CHOOSE r \in 0..n : r * r <= n /\ (r + 1) * (r + 1) > n

\* line 125: the diagonal of the image, the side of the square canvas
Diagonal(w, h) == Sqrt(w * w + h * h)

\* lines 183-185: the crop rectangle, centred on the canvas, in pixels
\* (a length of d quarter points is d / 3 pixels; ctp is half of that,
\* truncated; Go's size.X/2 truncates as well)
CropBounds(bounds, diagonal) ==
    LET ctp == diagonal \div 6
        size == Size(bounds)
    IN  Rect(ctp - size.X \div 2, ctp - size.Y \div 2,
             ctp + size.X \div 2, ctp + size.Y \div 2)

\* (mutant) the result allocated with the crop rectangle
ResultBoundsCropped(bounds, cropBounds) == cropBounds

\* line 187: image.NewRGBA(bounds), the rectangle of the result
ResultBounds(bounds, cropBounds) == bounds

\* lines 138-141: fontConfig
FontConfig(c) == [Typeface |-> "WatermarkFont", Size |-> c.FontSize]

\* lines 143-146: fontFace
FontFace(c) == [Font |-> FontConfig(c), Face |-> c.Font]

\* plot.DefaultFont before any call has set it: the plot package's
\* "Liberation" typeface, with no size set
PlotDefaultFont == [Typeface |-> "Liberation", Size |-> F(0)]

\* line 166: the font FillString is handed, the call's own fontFace
FillFont(fontFace, global) == fontFace

\* lines 152-154: the watermark text, "<company> - <date>"
WatermarkText(c, date) == [company |-> c.CompanyName, date |-> date]

\* lines 122-190: the image applyWatermark returns, described by all that
\* its pixels are computed from: the input image and where it is cropped
\* from, the font and the text FillString draws, and the strides of the
\* tiling
Rendered(proc, img, fillFont) ==
    LET bounds == img.bounds
        diagonal == Diagonal(PxToLength(bounds.Max.X), PxToLength(bounds.Max.Y))
        cropBounds == CropBounds(bounds, diagonal)
    IN  [err |-> "nil",
         bounds |-> ResultBounds(bounds, cropBounds),
         src |-> img.id,
         cropMin |-> cropBounds.Min,
         font |-> fillFont,
         text |-> WatermarkText(proc.config, proc.date),
         lineHeight |-> proc.config.FontSize,
         xDistance |-> proc.config.TextSpacing,
         yDistance |-> proc.config.LineSpacing]

\* the goroutines calling applyWatermark, and the calls they make in all
MaxRenderers == 2
MaxCalls == 3

Renderers == 1..MaxRenderers

NoProc == [config |-> NilConfig, date |-> "none"]

NoImage == [id |-> "none", bounds |-> Rect(0, 0, 0, 0)]

NoFont == [Font |-> PlotDefaultFont, Face |-> "nil"]

NoTile == [w |-> 0, diagonal |-> 0, lineHeight |-> 0, textWidth |-> 0,
           xDistance |-> 0, yDistance |-> 0]

\* line 158: fontFace.Width(watermarkText), the advance of the text (in em)
\* at the font's size
TextWidth(fontSize, advance) == PtToLength(fontSize) * advance

\* line 163: offset += lineHeight + yDistance
RowStride(t) == t.lineHeight + t.yDistance

\* line 165: xOffset += textWidth + xDistance
ColStride(t) == t.textWidth + t.xDistance

\* line 165: -vg.Length(line) * 1.5 * textWidth
RowStart(t, n) == -((n * 3 * t.textWidth) \div 2)

\* line 165: the loop goes on while xOffset < w
ColLimit(t) == t.w

TileSizes == {[X |-> 12, Y |-> 16], [X |-> 16, Y |-> 12]}

TileFontSizes == {10, 0}
TileLineSpacings == {5, 0, -10}
TileTextSpacings == {5, 0, -10}
TileAdvances == {0, 1}

\* a + b on float64
FAdd(a, b) == IF a.nan \/ b.nan THEN NaN ELSE F(a.v + b.v)

\* ProcessFile lines 55-68: applyWatermark is called when the input was
\* opened and decoded
RenderReached(failAt) == failAt \notin {"open", "decode"}

\* line 148 within ProcessFile: plot.DefaultFont after the call
DefaultFontAfter(reached, c, font) == IF reached THEN FontConfig(c) ELSE font

\* a * n on float64, n an integer
FMul(a, n) == IF a.nan THEN NaN ELSE F(a.v * n)

\* a loop "for x := start; x < limit; x += stride" that is entered never
\* ends when the stride is a number that is not positive (a loop whose
\* stride is NaN ends after its first turn)
LoopHangs(stride) == ~stride.nan /\ stride.v <= 0

\* line 163: the row loop is entered (-2*diagonal < 2*diagonal for an image
\* that was decoded) and never ends
RowLoopHangs(c) == LoopHangs(FAdd(c.FontSize, c.LineSpacing))

\* line 165: the column loop of the first row, the row whose start is the
\* smallest when textWidth is negative and the largest otherwise, is
\* entered (its start is a number below w) and never ends; advance is the
\* advance of the text in em, size the size of the image in pixels
ColLoopHangs(c, size, advance) ==
    /\ ~c.FontSize.nan
    /\ RowStart([textWidth |-> TextWidth(c.FontSize.v, advance)], 1)
          < PxToLength(size.X)
    /\ LoopHangs(FAdd(FMul(c.FontSize, advance), c.TextSpacing))

\* lines 162-168: the loops of applyWatermark never end
TilingHangs(c, size, advance) ==
    RowLoopHangs(c) \/ ColLoopHangs(c, size, advance)

\* the advance of the watermark text, in em, is at most this: the text
\* "<company> - 2006-01-02" of a short company name in a usual font is
\* about 10 em wide
MaxAdvance == 12

\* line 158: the advances fontFace.Width may find for the text; a font may
\* give its glyphs no width at all
TextAdvances == 0..MaxAdvance

\* lines 122-124: the sizes of the images a call may be handed, in pixels,
\* a small portrait, a small landscape and a wide one
ImageSizes == TileSizes \cup {[X |-> 4000, Y |-> 3000]}

\* whether the tiling never ends: it depends on the width of the image the
\* call decoded and on the width of the text in the font, which are the
\* environment's
HangOutcomes(c) ==
    {TilingHangs(c, size, advance) :
        size \in ImageSizes, advance \in TextAdvances}

\* the ProcessFile call never returns: applyWatermark is reached and its
\* loops never end
ProcessFileHangs(failAt, hangs) == RenderReached(failAt) /\ hangs

(***************************************************************************)
(* The state.                                                              *)
(***************************************************************************)
VARIABLES
    config,         \* the watermark.Config shared by the processor(s)
    bp,             \* the BatchProcessor: [workers, recursive]
    dir,            \* the input directory: [root, entries]
    outRootOK,      \* whether MkdirAll(outputDir) can succeed
    outBlocked,     \* input subdirectories whose output counterpart cannot be created
    envFail,        \* the steps of ProcessFile the environment may let fail
    outDirs,        \* output directories created so far (0: outputDir itself)
    outWritten,     \* paths whose output file has been created
    pc,             \* where the goroutine running ProcessDirectory stands
    imageFiles,     \* ProcessDirectory's imageFiles
    chanCap,        \* capacity of the jobs and of the results channel
    jobs,           \* the jobs channel's buffer
    jobsClosed,     \* close(jobs) has happened
    results,        \* the results channel's buffer
    resultsClosed,  \* close(results) has happened
    started,        \* workers started so far (the loop variable i)
    sendIdx,        \* position of the send loop in imageFiles
    wpc,            \* each worker's position
    wjob,           \* the job a worker took and is processing
    wres,           \* the jobResult a worker is about to send
    wg,             \* the WaitGroup's counter
    closer,         \* where the goroutine of lines 376-379 stands
    result,         \* the BatchResult being collected
    ret,            \* what ProcessDirectory returned: [result, err]
    enq,            \* history: how often each path was sent on jobs
    taken,          \* history: how often each path was received from jobs
    calls,          \* history: the errors each path's ProcessFile calls returned
    emits,          \* history: how often a result for each path was sent
    cmd,            \* the command line: [name, company, settings, workers, recursive, fontLoads]
    cpc,            \* where the command (runProcess, runBatch) stands
    cerr,           \* the error the command returned
    single,         \* history: the ProcessFile call of the process command
    defaultFont,    \* the package variable plot.DefaultFont
    rpc,            \* where each goroutine calling applyWatermark stands
    rproc,          \* the Processor of the goroutine's call: [config, date]
    rimg,           \* the image of the goroutine's call
    rfont,          \* the call's local fontFace
    ncalls,         \* applyWatermark calls made so far
    renders,        \* history: the finished calls, [proc, img, out]
    tpc,            \* where the tiling loops of lines 162-168 stand
    tin,            \* the locals the loops read: [w, diagonal, lineHeight, ...]
    line,           \* the loops' line
    offset,         \* the loops' offset
    xOffset,        \* the loops' xOffset
    stamps,         \* the points FillString was called with: [line, x, y]
    fills           \* history: the FillString calls, counted modulo FillWrap

envVars  == << config, bp, dir, outRootOK, outBlocked, envFail >>
outVars  == << outDirs, outWritten >>
chanVars == << chanCap, jobs, jobsClosed, results, resultsClosed >>
wrkVars  == << wpc, wjob, wres, wg >>
histVars == << enq, taken, calls, emits >>
cmdVars  == << cmd, cpc, cerr, single >>
rndVars  == << defaultFont, rpc, rproc, rimg, rfont, ncalls, renders >>
tileVars == << tpc, tin, line, offset, xOffset, stamps, fills >>
vars == << config, bp, dir, outRootOK, outBlocked, envFail, outDirs, outWritten, pc,
           imageFiles, chanCap, jobs, jobsClosed, results, resultsClosed,
           started, sendIdx, wpc, wjob, wres, wg, closer, result, ret,
           enq, taken, calls, emits, cmd, cpc, cerr, single,
           defaultFont, rpc, rproc, rimg, rfont, ncalls, renders,
           tpc, tin, line, offset, xOffset, stamps, fills >>

NilResult == [isNil |-> TRUE]

NoJob == [inputPath |-> 0, outputPath |-> 0]

NoResult == [inputPath |-> 0, err |-> "nil"]

NoRet == [result |-> NilResult, err |-> "none"]

NoCmd == [name |-> "none"]

NoSingle == [called |-> FALSE, err |-> "nil", created |-> FALSE]

\* no BatchProcessor constructed yet
NoBP == [workers |-> 0, recursive |-> FALSE]

\* the paths of the listing
Paths == 1..Len(dir.entries)

\* the directories of a listing
DirsOf(es) == {i \in 1..Len(es) : es[i].kind = "dir"}

BatchFileNames == {JpgName, TxtName}
BatchDirNames  == {SubDirName}

\* the input directories of the batch specification
InputDirs(n, fileNames, dirNames, kinds) ==
    {[root |-> "dir", entries |-> es] :
        es \in Listings(n, fileNames, dirNames, kinds)}
    \cup {[root |-> r, entries |-> << >>] : r \in {"unreadable", "missing"}}

\* what every specification starts from, the inputs apart
InitRest ==
    /\ outDirs = {}
    /\ outWritten = {}
    /\ imageFiles = << >>
    /\ chanCap = 0
    /\ jobs = << >>
    /\ jobsClosed = FALSE
    /\ results = << >>
    /\ resultsClosed = FALSE
    /\ started = 0
    /\ sendIdx = 1
    /\ wpc = << >>
    /\ wjob = << >>
    /\ wres = << >>
    /\ wg = 0
    /\ closer = "none"
    /\ result = NilResult
    /\ ret = NoRet
    /\ enq = [p \in Paths |-> 0]
    /\ taken = [p \in Paths |-> 0]
    /\ calls = [p \in Paths |-> << >>]
    /\ emits = [p \in Paths |-> 0]
    /\ cerr = "none"
    /\ single = NoSingle
    /\ defaultFont = PlotDefaultFont
    /\ rpc = [r \in Renderers |-> "idle"]
    /\ rproc = [r \in Renderers |-> NoProc]
    /\ rimg = [r \in Renderers |-> NoImage]
    /\ rfont = [r \in Renderers |-> NoFont]
    /\ ncalls = 0
    /\ renders = {}
    /\ tpc = "idle"
    /\ tin = NoTile
    /\ line = 0
    /\ offset = 0
    /\ xOffset = 0
    /\ stamps = {}
    /\ fills = 0

\* A BatchProcessor as NewBatchProcessor constructs it, about to run
\* ProcessDirectory(inputDir, outputDir).
InitBatch(failPoints) ==
    /\ config = DefaultConfig
    /\ bp \in [workers : 1..MaxWorkers, recursive : BOOLEAN]
    /\ dir \in InputDirs(MaxEntries, BatchFileNames, BatchDirNames, {"file", "dir"})
    /\ outRootOK \in BOOLEAN
    /\ outBlocked \in SUBSET DirsOf(dir.entries)
    /\ envFail = failPoints
    /\ pc = "pd_find"
    /\ cmd = NoCmd
    /\ cpc = "none"
    /\ InitRest

Init == InitBatch(FailPoints)

(***************************************************************************)
(* ProcessDirectory.                                                       *)
(***************************************************************************)
\* (mutant) the check of line 287 left out
NoImageFilesUnchecked(files) == FALSE

\* line 287: len(imageFiles) == 0
NoImageFiles(files) == Len(files) = 0

\* (mutant) the error of line 300 ignored
MkdirAllRootErrorIgnored == FALSE

\* os.MkdirAll(outputDir) of line 300 fails
MkdirAllRootFails == ~outRootOK

\* the directories MkdirAll(filepath.Dir(outputPath)) creates on its way
\* down for the file at path p: every ancestor above the first one that
\* cannot be created
CreatableDirs(p) ==
    {a \in Ancestors(dir.entries, p) :
        ({a} \cup Ancestors(dir.entries, a)) \cap outBlocked = {}}

\* (mutant) the error of line 363 ignored
MkdirAllErrorIgnored(p) == FALSE

\* os.MkdirAll(filepath.Dir(outputPath)) of line 363 fails
MkdirAllFails(p) == CreatableDirs(p) # Ancestors(dir.entries, p)

\* lines 282-289: find the image files; an error of the walk and an empty
\* list both end ProcessDirectory with an error
PD_Find ==
    /\ pc = "pd_find"
    /\ LET r == findImageFiles(dir, bp.recursive)
       IN  /\ imageFiles' = r.files
           /\ IF r.err # "nil"
              THEN /\ ret' = [result |-> NilResult, err |-> "finding image files"]
                   /\ pc' = "pd_done"
              ELSE IF NoImageFiles(r.files)
              THEN /\ ret' = [result |-> NilResult, err |-> "no image files found"]
                   /\ pc' = "pd_done"
              ELSE /\ ret' = ret
                   /\ pc' = "pd_mkdir"
    /\ UNCHANGED << rndVars, tileVars, cmdVars, envVars, outVars, chanVars, wrkVars, histVars,
                    started, sendIdx, closer, result >>

\* lines 299-302: create the output directory
PD_MkdirAll ==
    /\ pc = "pd_mkdir"
    /\ IF MkdirAllRootFails
       THEN /\ ret' = [result |-> NilResult, err |-> "creating output directory"]
            /\ pc' = "pd_done"
            /\ UNCHANGED outDirs
       ELSE /\ outDirs' = outDirs \cup {0}
            /\ pc' = "pf_make"
            /\ UNCHANGED ret
    /\ UNCHANGED << rndVars, tileVars, cmdVars, envVars, outWritten, imageFiles, chanVars, wrkVars,
                    histVars, started, sendIdx, closer, result >>

(***************************************************************************)
(* processFiles.                                                           *)
(***************************************************************************)
\* (mutant) the channels made without a buffer
ChanCapacityUnbuffered(files) == 0

\* lines 344-345: the capacity both channels are made with
ChanCapacity(files) == Len(files)

\* lines 344-345: make the two channels
PF_MakeChans ==
    /\ pc = "pf_make"
    /\ chanCap' = ChanCapacity(imageFiles)
    /\ jobs' = << >>
    /\ results' = << >>
    /\ jobsClosed' = FALSE
    /\ resultsClosed' = FALSE
    /\ pc' = "pf_spawn"
    /\ UNCHANGED << rndVars, tileVars, cmdVars, envVars, outVars, imageFiles, wrkVars, histVars,
                    started, sendIdx, closer, result, ret >>

\* lines 349-352: one turn of the loop starting the workers
PF_StartWorker ==
    /\ pc = "pf_spawn"
    /\ IF started < bp.workers
       THEN /\ wg' = wg + 1
            /\ wpc' = Append(wpc, "recv")
            /\ wjob' = Append(wjob, NoJob)
            /\ wres' = Append(wres, NoResult)
            /\ started' = started + 1
            /\ pc' = pc
       ELSE /\ pc' = "pf_send"
            /\ UNCHANGED << wrkVars, started >>
    /\ UNCHANGED << rndVars, tileVars, cmdVars, envVars, outVars, imageFiles, chanVars, histVars,
                    sendIdx, closer, result, ret >>

\* lines 355-372: one turn of the loop sending the jobs.  The output
\* path of a file is its path relative to inputDir below outputDir
\* (filepath.Rel cannot fail on a path Walk built from inputDir), so the
\* same position names both.  A file whose output subdirectory cannot be
\* created is passed over; a send blocks while the channel is full.
PF_SendJob ==
    /\ pc = "pf_send"
    /\ sendIdx <= Len(imageFiles)
    /\ LET file == imageFiles[sendIdx]
       IN  /\ outDirs' = outDirs \cup CreatableDirs(file)
           /\ IF MkdirAllFails(file)
              THEN UNCHANGED << jobs, enq >>
              ELSE /\ Len(jobs) < chanCap
                   /\ jobs' = Append(jobs, [inputPath |-> file, outputPath |-> file])
                   /\ enq' = [enq EXCEPT ![file] = @ + 1]
    /\ sendIdx' = sendIdx + 1
    /\ UNCHANGED << rndVars, tileVars, cmdVars, envVars, outWritten, pc, imageFiles, chanCap, jobsClosed,
                    results, resultsClosed, wrkVars, taken, calls, emits,
                    started, closer, result, ret >>

\* line 373: close(jobs)
PF_CloseJobs ==
    /\ pc = "pf_send"
    /\ sendIdx > Len(imageFiles)
    /\ jobsClosed' = TRUE
    /\ pc' = "pf_go"
    /\ UNCHANGED << rndVars, tileVars, cmdVars, envVars, outVars, imageFiles, chanCap, jobs, results,
                    resultsClosed, wrkVars, histVars, started, sendIdx,
                    closer, result, ret >>

\* lines 376-379: start the goroutine that waits for the workers
PF_GoCloser ==
    /\ pc = "pf_go"
    /\ closer' = "wait"
    /\ pc' = "pf_result"
    /\ UNCHANGED << rndVars, tileVars, cmdVars, envVars, outVars, imageFiles, chanVars, wrkVars,
                    histVars, started, sendIdx, result, ret >>

\* lines 382-385: the empty BatchResult
NewBatchResult(files) ==
    [TotalCount |-> Len(files), SuccessCount |-> 0, ErrorCount |-> 0,
     Errors |-> << >>]

PF_InitResult ==
    /\ pc = "pf_result"
    /\ result' = NewBatchResult(imageFiles)
    /\ pc' = "pf_collect"
    /\ UNCHANGED << rndVars, tileVars, cmdVars, envVars, outVars, imageFiles, chanVars, wrkVars,
                    histVars, started, sendIdx, closer, ret >>

\* (mutant) a failed job counted without its entry in Errors
CollectResultNoEntry(res, jr) ==
    IF jr.err # "nil"
    THEN [res EXCEPT !.ErrorCount = @ + 1]
    ELSE [res EXCEPT !.SuccessCount = @ + 1]

\* (mutant) a failed job's entry put in front of Errors
CollectResultPrepend(res, jr) ==
    IF jr.err # "nil"
    THEN [res EXCEPT !.ErrorCount = @ + 1,
                     !.Errors = << [FilePath |-> jr.inputPath,
                                    Error |-> jr.err] >> \o @]
    ELSE [res EXCEPT !.SuccessCount = @ + 1]

\* lines 388-398: count one jobResult
CollectResult(res, jr) ==
    IF jr.err # "nil"
    THEN [res EXCEPT !.ErrorCount = @ + 1,
                     !.Errors = Append(@, [FilePath |-> jr.inputPath,
                                           Error |-> jr.err])]
    ELSE [res EXCEPT !.SuccessCount = @ + 1]

\* lines 387-399: one turn of "for jobResult := range results"; the loop
\* ends when the channel is closed and empty
PF_Collect ==
    /\ pc = "pf_collect"
    /\ IF Len(results) > 0
       THEN /\ result' = CollectResult(result, Head(results))
            /\ results' = Tail(results)
            /\ pc' = pc
       ELSE /\ resultsClosed
            /\ pc' = "pf_return"
            /\ UNCHANGED << result, results >>
    /\ UNCHANGED << rndVars, tileVars, cmdVars, envVars, outVars, imageFiles, chanCap, jobs, jobsClosed,
                    resultsClosed, wrkVars, histVars, started, sendIdx,
                    closer, ret >>

\* line 401 and lines 305-313: processFiles returns the result, which
\* ProcessDirectory returns with a nil error
PF_Return ==
    /\ pc = "pf_return"
    /\ ret' = [result |-> result, err |-> "nil"]
    /\ pc' = "pd_done"
    /\ UNCHANGED << rndVars, tileVars, cmdVars, envVars, outVars, imageFiles, chanVars, wrkVars,
                    histVars, started, sendIdx, closer, result >>

\* (mutant) results closed without waiting for the workers
WgWaitReturnsAtOnce == TRUE

\* line 377: wg.Wait() returns once the counter is zero
WgWaitReturns == wg = 0

Closer_Wait ==
    /\ closer = "wait"
    /\ WgWaitReturns
    /\ closer' = "close"
    /\ UNCHANGED << rndVars, tileVars, cmdVars, envVars, outVars, pc, imageFiles, chanVars, wrkVars,
                    histVars, started, sendIdx, result, ret >>

\* line 378: close(results)
Closer_Close ==
    /\ closer = "close"
    /\ resultsClosed' = TRUE
    /\ closer' = "done"
    /\ UNCHANGED << rndVars, tileVars, cmdVars, envVars, outVars, pc, imageFiles, chanCap, jobs,
                    jobsClosed, results, wrkVars, histVars, started, sendIdx,
                    result, ret >>

(***************************************************************************)
(* worker.                                                                 *)
(***************************************************************************)
\* (mutant) a receive that leaves the job in the queue
RecvJobKeep(q) == [job |-> Head(q), rest |-> q]

\* a receive from the jobs channel: the job received and what stays queued
RecvJob(q) == [job |-> Head(q), rest |-> Tail(q)]

\* line 408: "for job := range jobs" takes the next job, or ends the loop
\* when the channel is closed and empty; the deferred wg.Done() of line 406
\* then runs
Worker_Recv(w) ==
    /\ wpc[w] = "recv"
    /\ IF Len(jobs) > 0
       THEN LET r == RecvJob(jobs)
            IN  /\ jobs' = r.rest
                /\ wjob' = [wjob EXCEPT ![w] = r.job]
                /\ taken' = [taken EXCEPT ![r.job.inputPath] = @ + 1]
                /\ wpc' = [wpc EXCEPT ![w] = "process"]
                /\ UNCHANGED wg
       ELSE /\ jobsClosed
            /\ wpc' = [wpc EXCEPT ![w] = "done"]
            /\ wg' = wg - 1
            /\ UNCHANGED << jobs, wjob, taken >>
    /\ UNCHANGED << rndVars, tileVars, cmdVars, envVars, outVars, pc, imageFiles, chanCap, jobsClosed,
                    results, resultsClosed, wres, enq, calls, emits, started,
                    sendIdx, closer, result, ret >>

\* line 409: ProcessFile on the job's paths; which step fails, if any, is
\* the environment's choice.  A call whose tiling never ends has written
\* plot.DefaultFont and never returns: the worker stays in it.
Worker_Process(w) ==
    /\ wpc[w] = "process"
    /\ \E failAt \in envFail, hangs \in HangOutcomes(config) :
          LET r == ProcessFile(failAt)
              p == wjob[w].inputPath
          IN  /\ defaultFont' = DefaultFontAfter(RenderReached(failAt), config,
                                                 defaultFont)
              /\ IF ProcessFileHangs(failAt, hangs)
                 THEN /\ calls' = [calls EXCEPT ![p] = Append(@, "none")]
                      /\ wpc' = [wpc EXCEPT ![w] = "hang"]
                      /\ UNCHANGED << wres, outWritten >>
                 ELSE /\ wres' = [wres EXCEPT
                                    ![w] = [inputPath |-> p, err |-> r.err]]
                      /\ outWritten' = IF r.created
                                       THEN outWritten \cup {wjob[w].outputPath}
                                       ELSE outWritten
                      /\ calls' = [calls EXCEPT ![p] = Append(@, r.err)]
                      /\ wpc' = [wpc EXCEPT ![w] = "send"]
    /\ UNCHANGED << rpc, rproc, rimg, rfont, ncalls, renders, tileVars, cmdVars, envVars, outDirs, pc, imageFiles, chanVars, wjob, wg,
                    enq, taken, emits, started, sendIdx, closer, result, ret >>

\* lines 410-413: send the jobResult; the send blocks while the channel is
\* full and panics on a closed channel
Worker_Send(w) ==
    /\ wpc[w] = "send"
    /\ IF resultsClosed
       THEN /\ wpc' = [wpc EXCEPT ![w] = "panic"]
            /\ UNCHANGED << results, emits, wjob, wres >>
       ELSE /\ Len(results) < chanCap
            /\ results' = Append(results, wres[w])
            /\ emits' = [emits EXCEPT ![wres[w].inputPath] = @ + 1]
            /\ wjob' = [wjob EXCEPT ![w] = NoJob]
            /\ wres' = [wres EXCEPT ![w] = NoResult]
            /\ wpc' = [wpc EXCEPT ![w] = "recv"]
    /\ UNCHANGED << rndVars, tileVars, cmdVars, envVars, outVars, pc, imageFiles, chanCap, jobs,
                    jobsClosed, resultsClosed, wg, enq, taken, calls,
                    started, sendIdx, closer, result, ret >>

Next ==
    \/ PD_Find
    \/ PD_MkdirAll
    \/ PF_MakeChans
    \/ PF_StartWorker
    \/ PF_SendJob
    \/ PF_CloseJobs
    \/ PF_GoCloser
    \/ PF_InitResult
    \/ PF_Collect
    \/ PF_Return
    \/ Closer_Wait
    \/ Closer_Close
    \/ \E w \in 1..Len(wpc) : Worker_Recv(w)
    \/ \E w \in 1..Len(wpc) : Worker_Process(w)
    \/ \E w \in 1..Len(wpc) : Worker_Send(w)

Spec == Init /\ [][Next]_vars

\* The Go scheduler runs some goroutine whenever one can take a step (the one
\* in ProcessDirectory, the closer or a worker), and a ProcessFile call
\* returns: the program does not stop while a step is possible.
Fairness == WF_vars(Next)

\* The batch program in an environment where a ProcessFile call succeeds,
\* fails before it creates the output (at decoding) or fails after (at
\* encoding); which step fails does not change what the workers do next.
FairInit == InitBatch({"none", "decode", "encode"})

FairSpec == FairInit /\ [][Next]_vars /\ Fairness

(***************************************************************************)
(* Properties.                                                             *)
(***************************************************************************)
\* processFiles has returned its result
ProcessFilesReturned == pc \in {"pf_return", "pd_done"} /\ result # NilResult

RECURSIVE SumOver(_, _)
\* the sum of f over the set S
SumOver(f, S) ==
    IF S = {} THEN 0
    ELSE LET x == CHOOSE y \in S : TRUE
         IN  f[x] + SumOver(f, S \ {x})

\* ProcessDirectory has returned
Returned == pc = "pd_done"

\* What the walk hands to the callback, stated on the listing: every entry
\* in recursive mode, the entries directly in inputDir otherwise.
Visited(i) == bp.recursive \/ dir.entries[i].depth = 1

\* the names whose extension, lower-cased, is .jpg, .jpeg or .png
ImageNames == {JpgName, UpperJpgName, JpegName, MixedPngName}

\* the eligible files of the input directory: the visited entries that are
\* no directories and bear an image name
Eligible ==
    {i \in Paths : /\ Visited(i)
                   /\ dir.entries[i].kind # "dir"
                   /\ dir.entries[i].name \in ImageNames}

\* the input directory cannot be enumerated: it is missing or unreadable,
\* or a directory the walk visits is unreadable
EnumerationFails ==
    \/ dir.root # "dir"
    \/ \E i \in Paths : /\ Visited(i)
                        /\ dir.entries[i].kind = "dir"
                        /\ ~dir.entries[i].readable

\* the workers holding a job
Busy == {w \in 1..Len(wpc) : wpc[w] \in {"process", "send"}}

\* C1: when ProcessDirectory returns a BatchResult, TotalCount is the number
\* N of eligible files discovered and SuccessCount + ErrorCount = N.
C1_CountsMatchDiscovered ==
    (Returned /\ ret.err = "nil") =>
        /\ ret.result.TotalCount = Len(imageFiles)
        /\ ret.result.SuccessCount + ret.result.ErrorCount = Len(imageFiles)

\* C2: processFiles returns only after every worker has signalled completion
\* and every emitted result has been counted: at its return no job is queued
\* or in flight and no result is left uncounted.
C2_ReturnAfterAllCounted ==
    ProcessFilesReturned =>
        /\ Len(wpc) = bp.workers
        /\ \A w \in 1..Len(wpc) : wpc[w] = "done"
        /\ wg = 0
        /\ jobs = << >>
        /\ results = << >>
        /\ result.SuccessCount + result.ErrorCount = SumOver(emits, Paths)
        /\ \A p \in Paths : emits[p] = taken[p] /\ taken[p] = enq[p]

\* two workers have run, and two results were counted, before the return
C2_Witness ==
    /\ Returned
    /\ ret.err = "nil"
    /\ Len(wpc) >= 2
    /\ ret.result.SuccessCount + ret.result.ErrorCount >= 2

\* C3: processFiles never deadlocks and eventually returns: the producer's
\* send on the jobs channel is never blocked, no worker's send on the results
\* channel is ever blocked (or hits a closed channel), and once the channels
\* are made processFiles returns.
C3_NoDeadlock ==
    /\ [](/\ (pc = "pf_send" /\ sendIdx <= Len(imageFiles)
                 /\ ~MkdirAllFails(imageFiles[sendIdx]))
              => Len(jobs) < chanCap
          /\ \A w \in 1..Len(wpc) :
                /\ wpc[w] # "panic"
                /\ wpc[w] = "send" => (Len(results) < chanCap /\ ~resultsClosed))
    /\ ((pc = "pf_spawn") ~> (pc = "pd_done" /\ ret.err = "nil"))

\* more files than workers have been processed and ProcessDirectory returned
C3_Witness ==
    /\ Returned
    /\ ret.err = "nil"
    /\ Len(imageFiles) > bp.workers
    /\ ret.result.SuccessCount + ret.result.ErrorCount = Len(imageFiles)

\* C4: every job is sent once, taken from the jobs channel once, by one
\* worker, processed once and gives one jobResult; no two workers hold the
\* same job, and at the return every job sent has gone through all of it.
C4_EachJobOnce ==
    /\ \A p \in Paths :
          /\ enq[p] <= 1
          /\ taken[p] <= enq[p]
          /\ Len(calls[p]) <= taken[p]
          /\ emits[p] <= Len(calls[p])
    /\ \A v, w \in Busy : v # w => wjob[v].inputPath # wjob[w].inputPath
    /\ ProcessFilesReturned =>
          \A p \in Paths : /\ taken[p] = enq[p]
                           /\ Len(calls[p]) = enq[p]
                           /\ emits[p] = enq[p]

\* two jobs went through two workers, one of them failing
C4_Witness ==
    /\ Returned
    /\ Len(wpc) >= 2
    /\ \E p, q \in Paths :
          /\ p # q
          /\ enq[p] = 1 /\ enq[q] = 1
          /\ calls[p] # << >> /\ calls[p][1] # "nil"
          /\ calls[q] = << "nil" >>

\* the entries of Errors naming path p
ErrorsOf(p) == {i \in 1..Len(result.Errors) : result.Errors[i].FilePath = p}

\* C5: at the return every file whose ProcessFile failed has exactly one
\* entry in Errors, holding its path and its error, and counts once in
\* ErrorCount (so len(Errors) = ErrorCount); every job sent was processed,
\* and SuccessCount is the number of files whose ProcessFile returned nil.
C5_FailureIsolation ==
    ProcessFilesReturned =>
        /\ Len(result.Errors) = result.ErrorCount
        /\ \A p \in Paths : Len(calls[p]) = enq[p]
        /\ result.SuccessCount =
              Cardinality({p \in Paths : calls[p] = << "nil" >>})
        /\ result.ErrorCount =
              Cardinality({p \in Paths : calls[p] # << >> /\ calls[p][1] # "nil"})
        /\ \A p \in Paths :
              IF calls[p] # << >> /\ calls[p][1] # "nil"
              THEN /\ Cardinality(ErrorsOf(p)) = 1
                   /\ \A i \in ErrorsOf(p) : result.Errors[i].Error = calls[p][1]
              ELSE ErrorsOf(p) = {}

\* one file failed and another was processed
C5_Witness ==
    /\ Returned
    /\ ret.err = "nil"
    /\ ret.result.SuccessCount >= 1
    /\ ret.result.ErrorCount >= 1

\* C6: ProcessDirectory returns a top-level error exactly when the input
\* directory cannot be enumerated, no eligible file is found or the output
\* directory cannot be created; else it returns a BatchResult and no error.
C6_TopLevelErrorIff ==
    Returned =>
        /\ (ret.err # "nil") <=>
              (EnumerationFails \/ Eligible = {} \/ ~outRootOK)
        /\ (ret.err = "nil") <=> (ret.result # NilResult)

\* every file failed and ProcessDirectory returned a result and no error
C6_Witness ==
    /\ Returned
    /\ ret.err = "nil"
    /\ ret.result.TotalCount >= 2
    /\ ret.result.ErrorCount = ret.result.TotalCount

\* C7: when the walk finds no eligible file, ProcessDirectory ends with an
\* error and has created nothing: no output directory, no worker, no file.
C7_ZeroFilesNoOutput ==
    (pc # "pd_find" /\ ~EnumerationFails /\ Eligible = {}) =>
        /\ Returned
        /\ ret.err = "no image files found"
        /\ ret.result = NilResult
        /\ outDirs = {}
        /\ outWritten = {}
        /\ started = 0
        /\ wpc = << >>
        /\ chanCap = 0

\* the only image lies in a subdirectory and the mode is non-recursive
C7_Witness ==
    /\ Returned
    /\ ret.err = "no image files found"
    /\ ~bp.recursive
    /\ outRootOK
    /\ \E i \in Paths : /\ dir.entries[i].depth = 2
                        /\ dir.entries[i].kind = "file"
                        /\ dir.entries[i].name \in ImageNames

\* the files whose ProcessFile call failed
Failed == {p \in Paths : calls[p] # << >> /\ calls[p][1] # "nil"}

\* C18: the counts and the set of (path, error) entries of the result are
\* fixed by the list of files and each file's outcome, whatever the number
\* of workers and their interleaving; the order of Errors is the order in
\* which the collector receives the failing results.
C18_ResultIndependentOfInterleaving ==
    /\ [](ProcessFilesReturned =>
             /\ result.TotalCount = Len(imageFiles)
             /\ result.SuccessCount =
                   Cardinality({p \in Paths : calls[p] = << "nil" >>})
             /\ result.ErrorCount = Cardinality(Failed)
             /\ {result.Errors[i] : i \in 1..Len(result.Errors)} =
                   {[FilePath |-> p, Error |-> calls[p][1]] : p \in Failed})
    /\ [][(result # NilResult /\ result' # result) =>
             /\ results # << >>
             /\ results' = Tail(results)
             /\ result'.Errors =
                   IF Head(results).err # "nil"
                   THEN Append(result.Errors,
                               [FilePath |-> Head(results).inputPath,
                                Error |-> Head(results).err])
                   ELSE result.Errors]_vars

\* two workers failed on two files and the collector received the later
\* file's result first
C18_Witness ==
    /\ Returned
    /\ ret.err = "nil"
    /\ Len(wpc) >= 2
    /\ Len(ret.result.Errors) = 2
    /\ ret.result.Errors[1].FilePath > ret.result.Errors[2].FilePath

(***************************************************************************)
(* File discovery on its own: findImageFiles applied to every listing of   *)
(* at most FindMaxEntries entries, in both modes.                          *)
(***************************************************************************)
InitFind ==
    /\ config = DefaultConfig
    /\ bp \in [workers : {1}, recursive : BOOLEAN]
    /\ dir \in InputDirs(FindMaxEntries, FileNames, DirNames,
                         {"file", "dir", "other"})
    /\ outRootOK = TRUE
    /\ outBlocked = {}
    /\ envFail = FailPoints
    /\ pc = "fif"
    /\ cmd = NoCmd
    /\ cpc = "none"
    /\ InitRest

\* bp.findImageFiles(inputDir): the list and the error it returns
FindImageFilesCall ==
    /\ pc = "fif"
    /\ LET r == findImageFiles(dir, bp.recursive)
       IN  /\ imageFiles' = r.files
           /\ ret' = [result |-> NilResult, err |-> r.err]
    /\ pc' = "fif_done"
    /\ UNCHANGED << rndVars, tileVars, cmdVars, envVars, outVars, chanVars, wrkVars, histVars,
                    started, sendIdx, closer, result >>

NextFind == FindImageFilesCall

SpecFind == InitFind /\ [][NextFind]_vars

\* the positions of S in ascending order: the order the walk visits them
RECURSIVE Ascending(_)
Ascending(S) ==
    IF S = {} THEN << >>
    ELSE LET m == CHOOSE x \in S : \A y \in S : x <= y
         IN  << m >> \o Ascending(S \ {m})

\* the eligible entries that are regular files
EligibleRegular == {i \in Eligible : dir.entries[i].kind = "file"}

\* C8 as claimed: findImageFiles returns exactly the regular files with an
\* image extension that lie directly in inputDir (non-recursive) or anywhere
\* below it (recursive).
C8_ExactlyRegularFiles ==
    pc = "fif_done" => imageFiles = Ascending(EligibleRegular)

\* C8 as amended: when the walk reports no error, findImageFiles returns, in
\* the order of the walk, exactly the entries that are no directories (the
\* regular files, and the symbolic links and other non-regular entries too)
\* whose lower-cased extension is .jpg, .jpeg or .png and that lie directly
\* in inputDir (non-recursive) or anywhere below it (recursive); a directory
\* is never returned, whatever its name.
C8_ExactlyNonDirectories ==
    (pc = "fif_done" /\ ret.err = "nil") =>
        /\ imageFiles = Ascending(Eligible)
        /\ \A k \in 1..Len(imageFiles) :
              dir.entries[imageFiles[k]].kind # "dir"

\* non-recursive mode: an upper-case .JPG directly in inputDir is returned
\* and an image in a subdirectory is not
C8_Witness ==
    /\ pc = "fif_done"
    /\ ret.err = "nil"
    /\ ~bp.recursive
    /\ \E k \in 1..Len(imageFiles) :
          dir.entries[imageFiles[k]].name = UpperJpgName
    /\ \E i \in Paths : /\ dir.entries[i].depth = 2
                        /\ dir.entries[i].name \in ImageNames
                        /\ dir.entries[i].kind = "file"

(***************************************************************************)
(* ValidateConfig on its own: applied to the nil config and to every       *)
(* config whose fields lie at, beside and far from the limits, NaN         *)
(* included.  (A float64 between two integers is treated by every          *)
(* comparison of ValidateConfig like one of the two.)                      *)
(***************************************************************************)
CompanyNames ==
    {<< >>, << " " >>, << "\t", "\n" >>, << " ", "A", " " >>,
     << "A", "C", "M", "E" >>, << "\f" >>, << "U+000B", "U+00A0" >>,
     << "U+0085", "A", "\f" >>, << "U+200B" >>}

FontSizes == {F(5), F(9), F(10), F(40), F(200), F(201), NaN}

Spacings == {F(4), F(5), F(30), F(200), F(201), NaN}

Qualities == {0, 1, 95, 100, 101}

ConfigsToValidate ==
    {NilConfig} \cup
    [isNil : {FALSE}, CompanyName : CompanyNames, FontSize : FontSizes,
     TextSpacing : Spacings, LineSpacing : Spacings, Quality : Qualities,
     Font : {"nil", "font"}, TimestampZero : {FALSE}]

InitValidate ==
    /\ config \in ConfigsToValidate
    /\ bp = NoBP
    /\ dir = [root |-> "dir", entries |-> << >>]
    /\ outRootOK = TRUE
    /\ outBlocked = {}
    /\ envFail = FailPoints
    /\ pc = "validate"
    /\ cmd = NoCmd
    /\ cpc = "none"
    /\ InitRest

\* ValidateConfig(config): the error it returns
ValidateConfigCall ==
    /\ pc = "validate"
    /\ ret' = [result |-> NilResult, err |-> ValidateConfig(config)]
    /\ pc' = "validated"
    /\ UNCHANGED << rndVars, tileVars, cmdVars, envVars, outVars, imageFiles, chanVars, wrkVars,
                    histVars, started, sendIdx, closer, result >>

NextValidate == ValidateConfigCall

SpecValidate == InitValidate /\ [][NextValidate]_vars

\* x lies in [lo, hi]
InRange(x, lo, hi) == ~x.nan /\ lo <= x.v /\ x.v <= hi

\* the characters that count as white space: Unicode's White_Space
WhiteSpace ==
    {" ", "\t", "\n", "\r", "\f", "U+000B", "U+0085", "U+00A0", "U+1680",
     "U+2028", "U+2029", "U+202F", "U+205F", "U+3000"}
    \cup {"U+2000", "U+2001", "U+2002", "U+2003", "U+2004", "U+2005",
          "U+2006", "U+2007", "U+2008", "U+2009", "U+200A"}

\* the string holds nothing but white space
IsBlank(str) == \A i \in 1..Len(str) : str[i] \in WhiteSpace

\* C9: ValidateConfig returns an error exactly when the config is nil, the
\* company name is empty after trimming, fontSize is outside [10, 200],
\* textSpacing or lineSpacing is outside [5, 200], quality is outside
\* [1, 100] or the font is nil.
C9_ErrorIffOutOfRange ==
    pc = "validated" =>
        ((ret.err # "nil") <=>
            \/ config = NilConfig
            \/ IsBlank(config.CompanyName)
            \/ ~InRange(config.FontSize, 10, 200)
            \/ ~InRange(config.TextSpacing, 5, 200)
            \/ ~InRange(config.LineSpacing, 5, 200)
            \/ config.Quality < 1
            \/ config.Quality > 100
            \/ config.Font = "nil")

(***************************************************************************)
(* The commands: runProcess (process <input> <output>) and runBatch        *)
(* (batch <input-dir> <output-dir>), with CreateWatermarkConfig,           *)
(* NewProcessor and NewBatchProcessor.                                     *)
(***************************************************************************)
\* internal/config setDefaults: default_workers, the configured default
\* unless the configuration file sets another
DefaultWorkers == 4

\* NewBatchProcessor: the worker count that replaces one that is not positive
FallbackWorkers == 4

\* CreateWatermarkConfig: the config made of the company name and the
\* settings (flags over file over defaults), or the font loader's error
CreateWatermarkConfig(companyName, settings, fontLoads) ==
    IF ~fontLoads
    THEN [config |-> NilConfig, err |-> "loading font"]
    ELSE [config |-> [isNil |-> FALSE, CompanyName |-> companyName,
                      FontSize |-> settings.font_size,
                      TextSpacing |-> settings.text_spacing,
                      LineSpacing |-> settings.line_spacing,
                      Quality |-> settings.quality,
                      Font |-> "font", TimestampZero |-> FALSE],
          err |-> "nil"]

\* NewProcessor: a zero timestamp of the config is set to the current time
NewProcessor(c) == [c EXCEPT !.TimestampZero = FALSE]

\* (mutant) options.Workers taken as it is
PoolSizeUnchecked(workers) == workers

\* NewBatchProcessor lines 261-264: the size of the worker pool
PoolSize(workers) == IF workers <= 0 THEN FallbackWorkers ELSE workers

\* NewBatchProcessor: the config is validated first; the processor's config
\* and the BatchProcessor made, or the error
NewBatchProcessor(c, options) ==
    IF ValidateConfig(c) # "nil"
    THEN [bp |-> NoBP, config |-> c, err |-> "invalid config"]
    ELSE [bp |-> [workers |-> PoolSize(options.Workers),
                  recursive |-> options.Recursive],
          config |-> NewProcessor(c), err |-> "nil"]

CmdSettings ==
    [font_size : {F(40), F(5), NaN}, text_spacing : {F(30), F(-100)},
     line_spacing : {F(30), F(201), F(-40)}, quality : {95, 0}]

CmdLines ==
    [name : {"batch"}, company : {<< >>, << "A", "C", "M", "E" >>},
     settings : CmdSettings, workers : {-1, 0, 1}, recursive : BOOLEAN,
     fontLoads : BOOLEAN, defaultWorkers : {DefaultWorkers, 0}]
    \cup
    [name : {"process"}, company : {<< >>, << "A", "C", "M", "E" >>},
     settings : CmdSettings, workers : {0}, recursive : {FALSE},
     fontLoads : BOOLEAN, defaultWorkers : {DefaultWorkers}]

InitCmd ==
    /\ cmd \in CmdLines
    /\ cpc = "start"
    /\ config = NilConfig
    /\ bp = NoBP
    /\ dir \in IF cmd.name = "batch"
               THEN InputDirs(CmdMaxEntries, BatchFileNames, BatchDirNames,
                              {"file", "dir"})
               ELSE {[root |-> "dir", entries |-> << >>]}
    /\ outRootOK \in IF cmd.name = "batch" THEN BOOLEAN ELSE {TRUE}
    /\ outBlocked \in SUBSET DirsOf(dir.entries)
    /\ envFail = FailPoints
    /\ pc = "idle"
    /\ InitRest

\* lines 136-159 of runProcess, lines 61-84 of runBatch: the config is
\* created; a font that cannot be loaded ends the command
Cmd_CreateConfig ==
    /\ cpc = "start"
    /\ LET r == CreateWatermarkConfig(cmd.company, cmd.settings, cmd.fontLoads)
       IN  IF r.err # "nil"
           THEN /\ cerr' = "creating watermark config"
                /\ cpc' = "done"
                /\ UNCHANGED config
           ELSE /\ config' = r.config
                /\ cpc' = IF cmd.name = "batch" THEN "rb_new" ELSE "rp_new"
                /\ UNCHANGED cerr
    /\ UNCHANGED << rndVars, tileVars, cmd, single, bp, dir, outRootOK, outBlocked, envFail,
                    outVars, pc, imageFiles, chanVars, wrkVars, histVars,
                    started, sendIdx, closer, result, ret >>

\* runProcess line 162: watermark.NewProcessor(config)
RP_NewProcessor ==
    /\ cpc = "rp_new"
    /\ config' = NewProcessor(config)
    /\ cpc' = "rp_file"
    /\ UNCHANGED << rndVars, tileVars, cmd, cerr, single, bp, dir, outRootOK, outBlocked,
                    envFail, outVars, pc, imageFiles, chanVars, wrkVars,
                    histVars, started, sendIdx, closer, result, ret >>

\* runProcess lines 163-168: processor.ProcessFile(inputPath, outputPath).
\* A call whose tiling never ends has opened and decoded the input and
\* written plot.DefaultFont, and never returns: the command stays in it,
\* with no output and no error.
RP_ProcessFile ==
    /\ cpc = "rp_file"
    /\ \E failAt \in envFail, hangs \in HangOutcomes(config) :
          LET r == ProcessFile(failAt)
          IN  /\ defaultFont' = DefaultFontAfter(RenderReached(failAt), config,
                                                 defaultFont)
              /\ IF ProcessFileHangs(failAt, hangs)
                 THEN /\ single' = [called |-> TRUE, err |-> "none",
                                    created |-> FALSE]
                      /\ cpc' = "rp_hang"
                      /\ UNCHANGED cerr
                 ELSE /\ single' = [called |-> TRUE, err |-> r.err,
                                    created |-> r.created]
                      /\ cerr' = IF r.err # "nil" THEN "processing image"
                                 ELSE "nil"
                      /\ cpc' = "done"
    /\ UNCHANGED << rpc, rproc, rimg, rfont, ncalls, renders, tileVars, cmd, envVars, outVars, pc, imageFiles, chanVars, wrkVars,
                    histVars, started, sendIdx, closer, result, ret >>

\* runBatch lines 86-102: the worker count (the configured default when the
\* flag is 0) and NewBatchProcessor; then ProcessDirectory is entered
RB_NewBatchProcessor ==
    /\ cpc = "rb_new"
    /\ LET workers == IF cmd.workers = 0 THEN cmd.defaultWorkers ELSE cmd.workers
           r == NewBatchProcessor(config, [Workers |-> workers,
                                           Recursive |-> cmd.recursive])
       IN  IF r.err # "nil"
           THEN /\ cerr' = "creating batch processor"
                /\ cpc' = "done"
                /\ UNCHANGED << config, bp, pc >>
           ELSE /\ config' = r.config
                /\ bp' = r.bp
                /\ pc' = "pd_find"
                /\ cpc' = "rb_run"
                /\ UNCHANGED cerr
    /\ UNCHANGED << rndVars, tileVars, cmd, single, dir, outRootOK, outBlocked, envFail,
                    outVars, imageFiles, chanVars, wrkVars, histVars,
                    started, sendIdx, closer, result, ret >>

\* runBatch lines 105-120: ProcessDirectory has returned; its error ends the
\* command with an error, its result is reported
RB_Report ==
    /\ cpc = "rb_run"
    /\ pc = "pd_done"
    /\ cerr' = IF ret.err # "nil" THEN "processing directory" ELSE "nil"
    /\ cpc' = "done"
    /\ UNCHANGED << rndVars, tileVars, cmd, single, envVars, outVars, pc, imageFiles, chanVars,
                    wrkVars, histVars, started, sendIdx, closer, result, ret >>

NextCmd ==
    \/ Cmd_CreateConfig
    \/ RP_NewProcessor
    \/ RP_ProcessFile
    \/ RB_NewBatchProcessor
    \/ RB_Report
    \/ Next

SpecCmd == InitCmd /\ [][NextCmd]_vars

\* C10: in both commands a config that fails validation is rejected before
\* any processing starts: no ProcessFile call, no directory walk, no output
\* directory and no output file, and the command ends with an error.
C10_InvalidConfigRejected ==
    (config # NilConfig /\ ValidateConfig(config) # "nil") =>
        /\ ~single.called
        /\ pc = "idle"
        /\ outDirs = {}
        /\ outWritten = {}
        /\ cpc = "done" => cerr \notin {"nil", "none"}

\* the worker count NewBatchProcessor is handed by the batch command
OptionsWorkers == IF cmd.workers = 0 THEN cmd.defaultWorkers ELSE cmd.workers

\* C13: the worker pool has at least one worker: it is options.Workers when
\* that is positive and 4 otherwise, options.Workers being the --workers flag
\* or, when the flag is 0, the configured default; and exactly that many
\* workers are started for the batch.
C13_PoolSizeAtLeastOne ==
    /\ bp # NoBP =>
          /\ bp.workers >= 1
          /\ bp.workers = IF OptionsWorkers > 0 THEN OptionsWorkers ELSE 4
    /\ started <= bp.workers
    /\ Len(wpc) = started
    /\ (\/ pc \in {"pf_send", "pf_go", "pf_result", "pf_collect", "pf_return"}
        \/ (pc = "pd_done" /\ ret.err = "nil")) =>
          /\ started >= 1
          /\ started = bp.workers

\* a batch ran with a pool of 4 workers although --workers was negative
C13_Witness ==
    /\ cmd.name = "batch"
    /\ cmd.workers < 0
    /\ pc = "pd_done"
    /\ ret.err = "nil"
    /\ started = 4

(***************************************************************************)
(* applyWatermark called from several goroutines (the workers of a batch,  *)
(* or any callers of ProcessImage), each call on a Processor and an image. *)
(***************************************************************************)
\* the Processors: a Config and the date of its (non-zero) Timestamp
Processors ==
    {[config |-> DefaultConfig, date |-> "2024-01-01"],
     [config |-> DefaultConfig, date |-> "2024-01-02"],
     [config |-> [DefaultConfig EXCEPT !.FontSize = F(20)], date |-> "2024-01-01"]}

\* the images: 12 x 16 pixels, and 3 x 5 pixels with bounds not at the origin
Images ==
    {[id |-> "a", bounds |-> Rect(0, 0, 12, 16)],
     [id |-> "b", bounds |-> Rect(1, 1, 4, 6)]}

InitIdle ==
    /\ config = DefaultConfig
    /\ bp = NoBP
    /\ dir = [root |-> "dir", entries |-> << >>]
    /\ outRootOK = TRUE
    /\ outBlocked = {}
    /\ envFail = FailPoints
    /\ pc = "idle"
    /\ cmd = NoCmd
    /\ cpc = "none"
    /\ InitRest

InitRender == InitIdle

\* lines 122-135: a call starts; bounds, the canvas and the image drawn on it
R_Begin(r) ==
    /\ rpc[r] = "idle"
    /\ ncalls < MaxCalls
    /\ \E proc \in Processors, img \in Images :
          /\ rproc' = [rproc EXCEPT ![r] = proc]
          /\ rimg' = [rimg EXCEPT ![r] = img]
    /\ ncalls' = ncalls + 1
    /\ rpc' = [rpc EXCEPT ![r] = "font"]
    /\ UNCHANGED << defaultFont, rfont, renders, tileVars, cmdVars,
                    envVars, outVars, pc, imageFiles, chanVars, wrkVars,
                    histVars, started, sendIdx, closer, result, ret >>

\* lines 138-149: fontConfig, fontFace, and plot.DefaultFont = fontConfig
R_SetFont(r) ==
    /\ rpc[r] = "font"
    /\ rfont' = [rfont EXCEPT ![r] = FontFace(rproc[r].config)]
    /\ defaultFont' = FontConfig(rproc[r].config)
    /\ rpc' = [rpc EXCEPT ![r] = "draw"]
    /\ UNCHANGED << rproc, rimg, ncalls, renders, tileVars, cmdVars,
                    envVars, outVars, pc, imageFiles, chanVars, wrkVars,
                    histVars, started, sendIdx, closer, result, ret >>

\* lines 151-190: the text is tiled, the canvas written and decoded (either
\* of which may fail), and the crop copied into the result
R_Draw(r) ==
    /\ rpc[r] = "draw"
    /\ \E ok \in BOOLEAN :
          LET out == IF ok
                     THEN Rendered(rproc[r], rimg[r],
                                   FillFont(rfont[r], defaultFont))
                     ELSE [err |-> "writing canvas"]
          IN  renders' = renders \cup
                  {[by |-> r, proc |-> rproc[r], img |-> rimg[r],
                    out |-> out]}
    /\ rproc' = [rproc EXCEPT ![r] = NoProc]
    /\ rimg' = [rimg EXCEPT ![r] = NoImage]
    /\ rfont' = [rfont EXCEPT ![r] = NoFont]
    /\ rpc' = [rpc EXCEPT ![r] = "idle"]
    /\ UNCHANGED << defaultFont, ncalls, tileVars, cmdVars,
                    envVars, outVars, pc, imageFiles, chanVars, wrkVars,
                    histVars, started, sendIdx, closer, result, ret >>

NextRender ==
    \/ \E r \in Renderers : R_Begin(r)
    \/ \E r \in Renderers : R_SetFont(r)
    \/ \E r \in Renderers : R_Draw(r)

SpecRender == InitRender /\ [][NextRender]_vars

\* the calls that returned an image
Succeeded == {e \in renders : e.out.err = "nil"}

\* C11: a successful applyWatermark returns an image whose bounds, and so
\* whose width and height, are those of the input image.
C11_SameDimensions ==
    \A e \in Succeeded :
        /\ e.out.bounds = e.img.bounds
        /\ Size(e.out.bounds) = Size(e.img.bounds)

\* an image of odd width and odd height has been rendered
C11_Witness ==
    \E e \in Succeeded :
        /\ Size(e.img.bounds).X % 2 = 1
        /\ Size(e.img.bounds).Y % 2 = 1

(***************************************************************************)
(* The batch over listings long enough to hold a file whose output         *)
(* subdirectory cannot be created and a file that comes after it.          *)
(***************************************************************************)
SkipMaxEntries == 3

\* a name the walk visits after every entry of the subdirectory
LateJpgName == << "z", ".", "j", "p", "g" >>

InitSkip ==
    /\ config = DefaultConfig
    /\ bp \in [workers : 1..MaxWorkers, recursive : {TRUE}]
    /\ dir \in InputDirs(SkipMaxEntries, {LateJpgName}, BatchDirNames,
                         {"file", "dir"})
    /\ outRootOK = TRUE
    /\ outBlocked \in SUBSET DirsOf(dir.entries)
    /\ envFail = {"none", "decode"}
    /\ pc = "pd_find"
    /\ cmd = NoCmd
    /\ cpc = "none"
    /\ InitRest

SpecSkip == InitSkip /\ [][Next]_vars /\ Fairness

\* the files the send loop has passed over or sent
Dispatched == {imageFiles[k] : k \in 1..(sendIdx - 1)}

\* the output subdirectory of file p cannot be created: a directory on the
\* way from outputDir down to it is one that cannot be made
OutputDirBlocked(p) == Ancestors(dir.entries, p) \cap outBlocked # {}

\* C12: a file whose output subdirectory cannot be created is skipped, no
\* job is sent for it and it is never processed; the batch goes on: every
\* other file is sent and processed, no error ends the batch, and
\* processFiles, once it sends jobs, returns its result.
C12_SkipNotAbort ==
    /\ [](/\ \A p \in Dispatched :
                IF OutputDirBlocked(p)
                THEN enq[p] = 0 /\ taken[p] = 0 /\ calls[p] = << >>
                ELSE enq[p] = 1
          /\ pc \in {"pf_send", "pf_go", "pf_result", "pf_collect", "pf_return"}
                => ret = NoRet
          /\ ProcessFilesReturned =>
                /\ sendIdx = Len(imageFiles) + 1
                /\ \A p \in Dispatched :
                      Len(calls[p]) = IF OutputDirBlocked(p) THEN 0 ELSE 1)
    /\ ((pc = "pf_send") ~> (Returned /\ ret.err = "nil" /\ ret.result # NilResult))

\* a file was skipped, a file that comes after it was processed, and the
\* result was returned
C12_Witness ==
    /\ Returned
    /\ ret.err = "nil"
    /\ \E j, k \in 1..Len(imageFiles) :
          /\ j < k
          /\ OutputDirBlocked(imageFiles[j])
          /\ enq[imageFiles[j]] = 0
          /\ calls[imageFiles[k]] = << "nil" >>

\* C17: while workers render, none of them writes a variable shared with
\* the others: no applyWatermark call writes the package variable
\* plot.DefaultFont (or the Config).  A call that writes plot.DefaultFont
\* stores a font of typeface "WatermarkFont", which the variable does not
\* hold before: it keeps its first value exactly as long as no call has
\* written it.
C17_WorkersOnlyRead ==
    /\ defaultFont = PlotDefaultFont
    /\ config = DefaultConfig

(***************************************************************************)
(* The tiling loops of applyWatermark (lines 156-168), one turn at a time, *)
(* for the configs that reach applyWatermark: the process command hands it *)
(* a config ValidateConfig never saw.  The config values here are numbers  *)
(* (no NaN), and the images are such that the diagonal is a whole length   *)
(* (12 x 16 and 16 x 12 pixels: 9, 12 and 15 points).                      *)
(***************************************************************************)
\* the int `line` wraps around; it is kept this many values either side of 0
LineWrap == 16

\* the FillString calls are counted modulo this
FillWrap == 4

\* a float64 that keeps falling stops changing once it is too large for the
\* stride to count: a sum with a negative stride that would fall below
\* this value below 0 leaves the number as it is
MaxLength == 400

\* offset += stride and xOffset += stride on float64
AddLength(a, b) == IF b < 0 /\ a + b < -MaxLength THEN a ELSE a + b

\* line++ on an int
IncLine(n) == IF n + 1 >= LineWrap THEN -LineWrap ELSE n + 1

\* lines 122-160: the locals the loops read
T_Begin ==
    /\ tpc = "idle"
    /\ \E size \in TileSizes, fontSize \in TileFontSizes,
          lineSpacing \in TileLineSpacings, textSpacing \in TileTextSpacings,
          advance \in TileAdvances :
          LET w == PxToLength(size.X)
              h == PxToLength(size.Y)
          IN  tin' = [w |-> w, diagonal |-> Diagonal(w, h),
                      lineHeight |-> PtToLength(fontSize),
                      textWidth |-> TextWidth(fontSize, advance),
                      xDistance |-> PtToLength(textSpacing),
                      yDistance |-> PtToLength(lineSpacing)]
    /\ line' = 0
    /\ offset' = -2 * tin'.diagonal
    /\ stamps' = {}
    /\ fills' = 0
    /\ tpc' = "row"
    /\ UNCHANGED << xOffset, rndVars, cmdVars, envVars, outVars, pc,
                    imageFiles, chanVars, wrkVars, histVars, started,
                    sendIdx, closer, result, ret >>

\* lines 163-165: the test of the row loop, line++, and the start of the row
T_Row ==
    /\ tpc = "row"
    /\ IF offset < 2 * tin.diagonal
       THEN /\ line' = IncLine(line)
            /\ xOffset' = RowStart(tin, line')
            /\ tpc' = "col"
       ELSE /\ tpc' = "done"
            /\ UNCHANGED << line, xOffset >>
    /\ UNCHANGED << tin, offset, stamps, fills, rndVars, cmdVars, envVars, outVars,
                    pc, imageFiles, chanVars, wrkVars, histVars, started,
                    sendIdx, closer, result, ret >>

\* lines 165-167: one turn of the column loop, or its end and the row
\* loop's offset += lineHeight + yDistance
T_Col ==
    /\ tpc = "col"
    /\ IF xOffset < ColLimit(tin)
       THEN /\ stamps' = stamps \cup {[line |-> line, x |-> xOffset, y |-> offset]}
            /\ xOffset' = AddLength(xOffset, ColStride(tin))
            /\ fills' = (fills + 1) % FillWrap
            /\ UNCHANGED << offset, tpc >>
       ELSE /\ offset' = AddLength(offset, RowStride(tin))
            /\ tpc' = "row"
            /\ UNCHANGED << stamps, xOffset, fills >>
    /\ UNCHANGED << tin, line, rndVars, cmdVars, envVars, outVars, pc,
                    imageFiles, chanVars, wrkVars, histVars, started,
                    sendIdx, closer, result, ret >>

NextTile == T_Begin \/ T_Row \/ T_Col

\* applyWatermark runs on: a turn of a loop that can be taken is taken
SpecTile == InitIdle /\ [][NextTile]_vars /\ WF_vars(NextTile)

\* the points at which row n's strings are to start when the row is tiled up
\* to the width of the canvas
TiledToCanvas(n) ==
    {x \in RowStart(tin, n)..(tin.diagonal - 1) :
        (x - RowStart(tin, n)) % ColStride(tin) = 0}

\* C15: every row places its strings at rowStart, rowStart + (textWidth +
\* textSpacing), ... for every such x below the width of the canvas (the
\* diagonal), so that the tiling reaches the right edge of the canvas.
C15_TilesToCanvasWidth ==
    (tpc = "done" /\ ColStride(tin) > 0) =>
        \A n \in 1..line :
            {s.x : s \in {t \in stamps : t.line = n}} = TiledToCanvas(n)

\* C16: the row loop and the column loop end after finitely many turns, for
\* every config that reaches applyWatermark.
C16_LoopsTerminate == (tpc = "row") ~> (tpc = "done")

(***************************************************************************)
(* ProcessFile step by step (lines 53-79, with decodeImage and saveImage): *)
(* the input and output paths, and the steps that fail when they are       *)
(* reached (envFail), are the inputs.                                      *)
(***************************************************************************)
\* (mutant) the output file created before the input is opened
StepOrderCreateFirst == << "create", "open", "decode", "render", "encode" >>

\* the steps in the order ProcessFile takes them; "create" and "encode" are
\* the os.Create and the Encode of saveImage
StepOrder == << "open", "decode", "render", "create", "encode" >>

\* whether a step fails: decodeImage and saveImage also fail on a path
\* whose lower-cased extension is none of .png, .jpg, .jpeg
StepFails(step, inputPath, outputPath, failing) ==
    \/ step \in failing
    \/ step = "decode" /\ ~IsSupportedExt(inputPath)
    \/ step = "encode" /\ ~IsSupportedExt(outputPath)

\* the error ProcessFile wraps a step's error in
StepError(step) ==
    IF step = "open" THEN "opening input file"
    ELSE IF step = "decode" THEN "decoding image"
    ELSE IF step = "render" THEN "applying watermark"
    ELSE "saving image"

RECURSIVE RunSteps(_, _, _, _, _, _)
\* the steps of order from the k-th on, up to the first that fails: the
\* error returned and the steps that ran
RunSteps(order, k, inputPath, outputPath, failing, ran) ==
    IF k > Len(order) THEN [err |-> "nil", ran |-> ran]
    ELSE IF StepFails(order[k], inputPath, outputPath, failing)
    THEN [err |-> StepError(order[k]), ran |-> Append(ran, order[k])]
    ELSE RunSteps(order, k + 1, inputPath, outputPath, failing,
                  Append(ran, order[k]))

\* ProcessFile(inputPath, outputPath): the error, the steps that ran, and
\* whether os.Create created or truncated the output file
ProcessFileRun(order, inputPath, outputPath, failing) ==
    LET r == RunSteps(order, 1, inputPath, outputPath, failing, << >>)
    IN  [called |-> TRUE, err |-> r.err, ran |-> r.ran,
         created |-> /\ "create" \notin failing
                     /\ \E i \in 1..Len(r.ran) : r.ran[i] = "create"]

FilePathNames == {JpgName, MixedPngName, TxtName}

InitFile ==
    /\ cmd \in [name : {"file"}, input : FilePathNames, output : FilePathNames]
    /\ envFail \in SUBSET FailPoints
    /\ "none" \notin envFail
    /\ config = DefaultConfig
    /\ bp = NoBP
    /\ dir = [root |-> "dir", entries |-> << >>]
    /\ outRootOK = TRUE
    /\ outBlocked = {}
    /\ pc = "idle"
    /\ cpc = "file"
    /\ InitRest

\* p.ProcessFile(inputPath, outputPath)
ProcessFileCall ==
    /\ cpc = "file"
    /\ single' = ProcessFileRun(StepOrder, cmd.input, cmd.output, envFail)
    /\ defaultFont' =
          DefaultFontAfter(\E i \in 1..Len(single'.ran) : single'.ran[i] = "render",
                           config, defaultFont)
    /\ cerr' = single'.err
    /\ cpc' = "done"
    /\ UNCHANGED << rpc, rproc, rimg, rfont, ncalls, renders, tileVars, cmd, envVars, outVars, pc, imageFiles,
                    chanVars, wrkVars, histVars, started, sendIdx, closer,
                    result, ret >>

NextFile == ProcessFileCall

SpecFile == InitFile /\ [][NextFile]_vars

\* the steps before os.Create
BeforeCreate == {"open", "decode", "render"}

\* step s of the call would fail, were it reached
WouldFail(s) ==
    \/ s \in envFail
    \/ s = "decode" /\ Ext(cmd.input) \notin
          {Ext(JpgName), << ".", "P", "n", "G" >>}
    \/ s = "encode" /\ Ext(cmd.output) \notin
          {Ext(JpgName), << ".", "P", "n", "G" >>}

\* C19: ProcessFile runs open, decode, render, save in that order and stops
\* at the first step that fails, returning that step's error; the output
\* file is created only after open, decode and render have succeeded, so a
\* failure of one of these leaves the output path untouched.
C19_StepsInOrder ==
    single.called =>
        /\ Len(single.ran) <= 5
        /\ single.ran = SubSeq(<< "open", "decode", "render", "create", "encode" >>,
                               1, Len(single.ran))
        /\ \A i \in 1..(Len(single.ran) - 1) : ~WouldFail(single.ran[i])
        /\ IF WouldFail(single.ran[Len(single.ran)])
           THEN single.err = StepError(single.ran[Len(single.ran)])
           ELSE single.err = "nil" /\ Len(single.ran) = 5
        /\ single.created <=>
              (\A s \in BeforeCreate : ~WouldFail(s)) /\ ~WouldFail("create")
        /\ single.err \in {"opening input file", "decoding image",
                           "applying watermark"} => ~single.created

\* rendering failed on a readable, decodable input while the output could
\* have been created: the call returned the render error and created nothing
C19_Witness ==
    /\ single.called
    /\ single.err = "applying watermark"
    /\ single.ran = << "open", "decode", "render" >>
    /\ ~WouldFail("create")
    /\ ~single.created

====
